---------------------------- MODULE Spec2Model ----------------------------
(***************************************************************************)
(* A model of the plutodoc/nest-temp documentation site: the three         *)
(* revisions of the SiteConfig declared in rspress.config.ts, the          *)
(* Controllers content document, and the Makefile's command targets that   *)
(* wrap yarn and git.                                                      *)
(*                                                                         *)
(* JavaScript values are tagged records [t |-> type, v |-> payload]; an    *)
(* object's payload is the sequence of its <<key, value>> pairs in         *)
(* declaration order, an array's payload is the sequence of its elements.  *)
(***************************************************************************)
EXTENDS Integers, Sequences, FiniteSets, TLC

(* ----------------------------------------------------------------------- *)
(* JavaScript values                                                       *)
(* ----------------------------------------------------------------------- *)
JStr(s) == [t |-> "string", v |-> s]

JBool(b) == [t |-> "boolean", v |-> b]

JArr(elems) == [t |-> "array", v |-> elems]

JObj(pairs) == [t |-> "object", v |-> pairs]

JDate(y) == [t |-> "date", v |-> y]

JUndefined == [t |-> "undefined", v |-> ""]

JNull == [t |-> "null", v |-> ""]

HasKey(o, k) == \E i \in 1..Len(o.v) : o.v[i][1] = k

Get(o, k) == o.v[CHOOSE i \in 1..Len(o.v) : o.v[i][1] = k][2]

Keys(o) == [i \in 1..Len(o.v) |-> o.v[i][1]]

StartsWith(s, p) == Len(s) >= Len(p) /\ SubSeq(s, 1, Len(p)) = p

(* ----------------------------------------------------------------------- *)
(* rspress.config.ts                                                       *)
(* ----------------------------------------------------------------------- *)

\* A root given relative to the site, not joined to the directory.
PathJoinRelative(dir, seg) == "/" \o seg

\* path.join(__dirname, 'docs'): the segments joined by one separator.
PathJoin(dir, seg) ==
    IF dir = "/" THEN dir \o seg ELSE dir \o "/" \o seg

\* A footer that holds the Date object itself, not text made from it.
FooterMessageDate(now) == JDate(now)

\* `Copyright © 2020-${new Date().getFullYear()} My Project, Inc. ...`
FooterMessage(now) ==
    JStr("Copyright © 2020-" \o ToString(now) \o " My Project, Inc. Built with Rspress")

\* defineConfig returns the object it is given.
defineConfig(c) == c

Leaf(text, link) == JObj(<< <<"text", JStr(text)>>, <<"link", JStr(link)>> >>)

Logo ==
    JObj(<< <<"light", JStr("/rspress-light-logo.png")>>,
            <<"dark", JStr("/rspress-dark-logo.png")>> >>)

SocialLinks ==
    JArr(<< JObj(<< <<"icon", JStr("github")>>,
                    <<"mode", JStr("link")>>,
                    <<"content", JStr("https://github.com/nestjs/nest")>> >>) >>)

\* First declaration: themeConfig.sidebar.
Sidebar1 ==
    JObj(<< <<"/", JArr(<<
        Leaf("What is Nest?", "/index"),
        Leaf("Intro", "/intro"),
        Leaf("INTRODUCTION", "/introduction"),
        JObj(<< <<"text", JStr("OVERVIEW")>>,
                <<"collapsible", JBool(FALSE)>>,
                <<"items", JArr(<<
                    Leaf("First steps", "/overview/first-steps"),
                    Leaf("Controllers", "/overview/controllers"),
                    Leaf("Providers", "/overview/providers"),
                    Leaf("Modules", "/overview/modules"),
                    Leaf("Middleware", "/overview/middleware"),
                    Leaf("Exception filters", "/overview/exception-filters") >>)>> >>)
        >>)>> >>)

\* A sidebar whose route-prefix key does not start at the site's root.
Sidebar2RelativeKey ==
    JObj(<< <<"overview/", JArr(<<
        Leaf("What is Nest?", "/index"),
        Leaf("Intro", "/intro"),
        Leaf("INTRODUCTION", "/introduction"),
        JObj(<< <<"text", JStr("OVERVIEW")>>,
                <<"items", JArr(<<
                    Leaf("First steps", "/overview/first-steps") >>)>> >>)
        >>)>> >>)

\* Second declaration: themeConfig.sidebar.
Sidebar2 ==
    JObj(<< <<"/", JArr(<<
        Leaf("What is Nest?", "/index"),
        Leaf("Intro", "/intro"),
        Leaf("INTRODUCTION", "/introduction"),
        JObj(<< <<"text", JStr("OVERVIEW")>>,
                <<"items", JArr(<<
                    Leaf("First steps", "/overview/first-steps") >>)>> >>)
        >>)>> >>)

\* Third declaration: the OVERVIEW group.
Overview3 ==
    JObj(<< <<"text", JStr("OVERVIEW")>>,
            <<"collapsible", JBool(FALSE)>>,
            <<"items", JArr(<<
                Leaf("First steps", "/overview/first-steps"),
                Leaf("Controllers", "/overview/controllers"),
                Leaf("Providers", "/overview/providers"),
                Leaf("Modules", "/overview/modules"),
                Leaf("Middleware", "/overview/middleware"),
                Leaf("Exception filters", "/overview/exception-filters"),
                Leaf("Pipes", "/overview/pipes"),
                Leaf("Guards", "/overview/guards"),
                Leaf("Interceptors", "/overview/interceptors"),
                Leaf("Custom decorators", "/overview/custom-decorators") >>)>> >>)

\* A FUNDAMENTALS group whose entry links to a route no document is served at.
Fundamentals3DeadLink ==
    JObj(<< <<"text", JStr("FUNDAMENTALS")>>,
            <<"collapsible", JBool(FALSE)>>,
            <<"items", JArr(<<
                Leaf("Custom providers", "/fundamentals/providers") >>)>> >>)

\* A FUNDAMENTALS group whose entry repeats the link of an OVERVIEW entry.
Fundamentals3Duplicate ==
    JObj(<< <<"text", JStr("FUNDAMENTALS")>>,
            <<"collapsible", JBool(FALSE)>>,
            <<"items", JArr(<<
                Leaf("Custom providers", "/overview/providers") >>)>> >>)

\* A FUNDAMENTALS group that is given a link of its own beside its items.
Fundamentals3WithLink ==
    JObj(<< <<"text", JStr("FUNDAMENTALS")>>,
            <<"link", JStr("/fundamentals")>>,
            <<"collapsible", JBool(FALSE)>>,
            <<"items", JArr(<<
                Leaf("Custom providers", "/fundamentals/custom-providers") >>)>> >>)

\* Third declaration: the FUNDAMENTALS group.
Fundamentals3 ==
    JObj(<< <<"text", JStr("FUNDAMENTALS")>>,
            <<"collapsible", JBool(FALSE)>>,
            <<"items", JArr(<<
                Leaf("Custom providers", "/fundamentals/custom-providers") >>)>> >>)

\* Third declaration: themeConfig.sidebar.
Sidebar3 ==
    JObj(<< <<"/", JArr(<<
        Leaf("What is Nest?", "/index"),
        Leaf("Intro", "/intro"),
        Leaf("INTRODUCTION", "/introduction"),
        Overview3,
        Fundamentals3 >>)>> >>)

\* First declaration, evaluated in directory dir in the year now.
SiteConfig1(dir, now) ==
    defineConfig(JObj(<<
        <<"root", JStr(PathJoin(dir, "docs"))>>,
        <<"title", JStr("Nest")>>,
        <<"description", JStr("About Nest")>>,
        <<"icon", JStr("/rspress-icon.png")>>,
        <<"logo", Logo>>,
        <<"themeConfig", JObj(<<
            <<"footer", JObj(<< <<"message", FooterMessage(now)>> >>)>>,
            <<"hideNavbar", JStr("auto")>>,
            <<"search", JBool(FALSE)>>,
            <<"sidebar", Sidebar1>>,
            <<"socialLinks", SocialLinks>> >>)>>,
        <<"markdown", JObj(<< >>)>> >>))

\* Second declaration: no footer, markdown.highlightLanguages.
SiteConfig2(dir, now) ==
    defineConfig(JObj(<<
        <<"root", JStr(PathJoin(dir, "docs"))>>,
        <<"title", JStr("Nest")>>,
        <<"description", JStr("About Nest")>>,
        <<"icon", JStr("/rspress-icon.png")>>,
        <<"logo", Logo>>,
        <<"themeConfig", JObj(<<
            <<"hideNavbar", JStr("auto")>>,
            <<"search", JBool(FALSE)>>,
            <<"sidebar", Sidebar2>>,
            <<"socialLinks", SocialLinks>> >>)>>,
        <<"markdown", JObj(<<
            <<"highlightLanguages", JArr(<< JStr("ejs") >>)>> >>)>> >>))

\* Third declaration.
SiteConfig3(dir, now) ==
    defineConfig(JObj(<<
        <<"root", JStr(PathJoin(dir, "docs"))>>,
        <<"title", JStr("Nest")>>,
        <<"description", JStr("About Nest")>>,
        <<"icon", JStr("/favicon.ico")>>,
        <<"logo", Logo>>,
        <<"themeConfig", JObj(<<
            <<"footer", JObj(<< <<"message", FooterMessage(now)>> >>)>>,
            <<"hideNavbar", JStr("auto")>>,
            <<"search", JBool(FALSE)>>,
            <<"sidebar", Sidebar3>>,
            <<"socialLinks", SocialLinks>> >>)>>,
        <<"markdown", JObj(<< >>)>> >>))

Declarations == 1..3

\* The module's default export under declaration d.
SiteConfig(d, dir, now) ==
    CASE d = 1 -> SiteConfig1(dir, now)
      [] d = 2 -> SiteConfig2(dir, now)
      [] OTHER -> SiteConfig3(dir, now)

\* markdown.checkDeadLinks: the option is commented out in every declaration,
\* so the generator's default (no check) applies.
CheckDeadLinks(c) ==
    /\ HasKey(Get(c, "markdown"), "checkDeadLinks")
    /\ Get(Get(c, "markdown"), "checkDeadLinks") = JBool(TRUE)

SidebarOf(c) == Get(Get(c, "themeConfig"), "sidebar")

RECURSIVE EntryLinks(_), ListLinks(_)
\* The links of one SidebarEntry and of its items, depth first.
EntryLinks(e) ==
    (IF HasKey(e, "link") THEN << Get(e, "link").v >> ELSE << >>)
    \o (IF HasKey(e, "items") THEN ListLinks(Get(e, "items").v) ELSE << >>)
ListLinks(es) ==
    IF Len(es) = 0 THEN << >> ELSE EntryLinks(Head(es)) \o ListLinks(Tail(es))

RECURSIVE GroupLinks(_)
GroupLinks(pairs) ==
    IF Len(pairs) = 0 THEN << >>
    ELSE ListLinks(Head(pairs)[2].v) \o GroupLinks(Tail(pairs))

\* Every link of the sidebar tree, under every route-prefix key, in order.
SidebarLinks(c) == GroupLinks(SidebarOf(c).v)

Range(seq) == {seq[i] : i \in 1..Len(seq)}

NoDuplicates(seq) == \A i, j \in 1..Len(seq) : seq[i] = seq[j] => i = j

(* ----------------------------------------------------------------------- *)
(* Content corpus                                                          *)
(* ----------------------------------------------------------------------- *)

\* The Controllers document: its number of lines.
ControllersLines == 568

\* The Controllers document: every link target it holds, with its line.
ControllersHrefs ==
    << [line |-> 5,   image |-> TRUE,  href |-> "/imgs/Controllers_1.webp"],
       [line |-> 13,  image |-> FALSE, href |-> "https://docs.nestjs.com/techniques/validation"],
       [line |-> 13,  image |-> FALSE, href |-> "https://docs.nestjs.com/recipes/crud-generator#crud-generator"],
       [line |-> 57,  image |-> FALSE, href |-> "https://docs.nestjs.com/controllers#status-code"],
       [line |-> 58,  image |-> FALSE, href |-> "https://expressjs.com/en/api.html#res"],
       [line |-> 68,  image |-> FALSE, href |-> "https://expressjs.com/en/api.html#req"],
       [line |-> 100, image |-> FALSE, href |-> "https://expressjs.com/en/api.html#req"],
       [line |-> 117, image |-> FALSE, href |-> "/custom-decorators"],
       [line |-> 329, image |-> FALSE, href |-> "/fundamentals/injection-scopes"],
       [line |-> 337, image |-> FALSE, href |-> "https://kamilmysliwiec.com/typescript-2-1-introduction-async-await"],
       [line |-> 355, image |-> FALSE, href |-> "http://reactivex.io/rxjs/class/es6/Observable.js~Observable.html"],
       [line |-> 404, image |-> FALSE, href |-> "https://docs.nestjs.com/techniques/validation#stripping-properties"],
       [line |-> 410, image |-> FALSE, href |-> "/exception-filters"],
       [line |-> 487, image |-> FALSE, href |-> "/recipes/crud-generator"],
       [line |-> 511, image |-> FALSE, href |-> "https://expressjs.com/en/api.html#res"] >>

\* A site-internal link: a document link whose target is a route of the site.
IsInternal(h) == ~h.image /\ StartsWith(h.href, "/")

\* The Controllers document, served at the route its sidebar entry names.
ControllersDoc ==
    [route |-> "/overview/controllers",
     nonEmpty |-> ControllersLines > 0,
     hrefs |-> ControllersHrefs]

\* A document of the corpus that the sidebar references by route.
ReferencedDoc(route) == [route |-> route, nonEmpty |-> TRUE, hrefs |-> << >>]

\* The documents under the content root.
ContentCorpus ==
    {ControllersDoc} \cup
    {ReferencedDoc(r) : r \in {"/index", "/intro", "/introduction",
        "/overview/first-steps", "/overview/providers", "/overview/modules",
        "/overview/middleware", "/overview/exception-filters", "/overview/pipes",
        "/overview/guards", "/overview/interceptors", "/overview/custom-decorators",
        "/fundamentals/custom-providers"}}

\* A route resolves when a document is served at it.
Resolves(route) == \E d \in ContentCorpus : d.route = route

ResolvesNonEmpty(route) == \E d \in ContentCorpus : d.route = route /\ d.nonEmpty

\* The site-internal links of the documents of the corpus.
DocumentLinks ==
    {d.hrefs[i].href : d \in {ControllersDoc},
                       i \in {j \in 1..Len(ControllersHrefs) : IsInternal(ControllersHrefs[j])}}

\* The links (of the sidebar or of a document) that resolve to no document.
DeadLinks(c) ==
    {l \in Range(SidebarLinks(c)) : ~Resolves(l)}
    \cup {l \in DocumentLinks : ~Resolves(l)}


(* ----------------------------------------------------------------------- *)
(* Serialization of a SiteConfig (JSON)                                    *)
(* ----------------------------------------------------------------------- *)
Tok(k, s) == [k |-> k, s |-> s]

\* Date.prototype.toJSON: an ISO timestamp of the date (here, of its year).
DateToJSON(y) == ToString(y) \o "-01-01T00:00:00.000Z"

RECURSIVE Stringify(_), StringifyElems(_, _), StringifyMembers(_, _)
\* JSON.stringify: the token sequence of a value.
Stringify(val) ==
    CASE val.t = "string"  -> << Tok("str", val.v) >>
      [] val.t = "boolean" -> << Tok(IF val.v THEN "true" ELSE "false", "") >>
      [] val.t = "date"    -> << Tok("str", DateToJSON(val.v)) >>
      [] val.t = "array"   -> << Tok("[", "") >> \o StringifyElems(val.v, TRUE) \o << Tok("]", "") >>
      [] val.t = "object"  -> << Tok("{", "") >> \o StringifyMembers(val.v, TRUE) \o << Tok("}", "") >>
      [] OTHER             -> << Tok("null", "") >>
\* An array's elements: undefined becomes null.
StringifyElems(elems, first) ==
    IF Len(elems) = 0 THEN << >>
    ELSE (IF first THEN << >> ELSE << Tok(",", "") >>)
         \o Stringify(Head(elems)) \o StringifyElems(Tail(elems), FALSE)
\* An object's members: a member whose value is undefined is left out.
StringifyMembers(pairs, first) ==
    IF Len(pairs) = 0 THEN << >>
    ELSE IF Head(pairs)[2].t = "undefined" THEN StringifyMembers(Tail(pairs), first)
    ELSE (IF first THEN << >> ELSE << Tok(",", "") >>)
         \o << Tok("str", Head(pairs)[1]), Tok(":", "") >>
         \o Stringify(Head(pairs)[2]) \o StringifyMembers(Tail(pairs), FALSE)

RECURSIVE ParseValue(_), ParseElems(_, _), ParseMembers(_, _)
\* JSON.parse of a token sequence: the value read and the tokens left.
ParseValue(ts) ==
    LET h == Head(ts) IN
    CASE h.k = "str"   -> [val |-> JStr(h.s), rest |-> Tail(ts)]
      [] h.k = "true"  -> [val |-> JBool(TRUE), rest |-> Tail(ts)]
      [] h.k = "false" -> [val |-> JBool(FALSE), rest |-> Tail(ts)]
      [] h.k = "["     -> ParseElems(Tail(ts), << >>)
      [] h.k = "{"     -> ParseMembers(Tail(ts), << >>)
      [] OTHER         -> [val |-> JNull, rest |-> Tail(ts)]
ParseElems(ts, acc) ==
    CASE Head(ts).k = "]" -> [val |-> JArr(acc), rest |-> Tail(ts)]
      [] Head(ts).k = "," -> ParseElems(Tail(ts), acc)
      [] OTHER -> LET r == ParseValue(ts) IN ParseElems(r.rest, Append(acc, r.val))
ParseMembers(ts, acc) ==
    CASE Head(ts).k = "}" -> [val |-> JObj(acc), rest |-> Tail(ts)]
      [] Head(ts).k = "," -> ParseMembers(Tail(ts), acc)
      [] OTHER -> LET r == ParseValue(Tail(Tail(ts)))
                  IN ParseMembers(r.rest, Append(acc, << Head(ts).s, r.val >>))

\* The value reloaded from the serialized form of c.
Reload(c) == ParseValue(Stringify(c)).val

(* ----------------------------------------------------------------------- *)
(* Makefile                                                                *)
(* ----------------------------------------------------------------------- *)
Targets == {"build", "dev", "fmt", "install", "log", "pull", "push"}

\* A build target that lists no prerequisite.
PrereqsWithoutFmt(t) == IF t = "push" THEN << "pull" >> ELSE << >>

\* A push target that lists no prerequisite.
PrereqsWithoutPull(t) == IF t = "build" THEN << "fmt" >> ELSE << >>

\* The prerequisites of a target, in order.
Prereqs(t) ==
    CASE t = "build" -> << "fmt" >>
      [] t = "push"  -> << "pull" >>
      [] OTHER       -> << >>

\* The recipe line of a target.
Recipe(t) ==
    CASE t = "build"   -> "yarn run build"
      [] t = "dev"     -> "yarn run dev"
      [] t = "fmt"     -> "yarn run fmt"
      [] t = "install" -> "yarn install"
      [] t = "log"     -> "git log --color --graph --pretty=oneline --abbrev-commit"
      [] t = "pull"    -> "git pull origin master:master"
      [] OTHER         -> "git push origin dev:dev"

\* The fmt and pull recipe lines written with the '-' prefix.
IgnoresErrorsInPrereqs(t) == t \in {"fmt", "pull"}

\* No recipe line carries the '-' prefix that makes make ignore its failure.
IgnoresErrors(t) == FALSE

\* No target names a file: the working tree holds no file called like a
\* target and no recipe creates one, so make never takes a target to be up
\* to date and runs the recipe of every target it reaches.
UpToDate(t) == FALSE

\* make running a target's recipe without its prerequisites.
PlanWithoutPrereqs(t) == << t >>

RECURSIVE PlanAll(_)
\* make runs a target's prerequisites, then the target's own recipe.
Plan(t) == PlanAll(Prereqs(t)) \o (IF UpToDate(t) THEN << >> ELSE << t >>)
PlanAll(ts) == IF Len(ts) = 0 THEN << >> ELSE Plan(Head(ts)) \o PlanAll(Tail(ts))

\* make's own exit status when a recipe fails.
MakeErrorStatus == 2

\* The exit status of make after a recipe line that ended with `code`.
MakeStatus(code) == IF code = 0 THEN 0 ELSE MakeErrorStatus

\* Exit codes a wrapped tool may end with (0: success).
ToolExitCodes == {0, 1, 128}

\* The recipe whose tool is the site generator.
IsGenerator(t) == Recipe(t) = "yarn run build"

(* ----------------------------------------------------------------------- *)
(* State                                                                   *)
(* ----------------------------------------------------------------------- *)
FirstYear == 2020

MaxTicks == 1

Dirs == {"/", "/home/dev/nest-temp"}

NoBuild == [decl |-> 0, dir |-> "", year |-> 0, value |-> JUndefined]

NoSite == [data |-> JUndefined, nav |-> << >>]

VARIABLES
    decl,       \* the declaration of rspress.config.ts in the working tree
    formatted,  \* whether the sources are in the formatter's layout
    cwd,        \* the directory of the working tree (__dirname)
    clock,      \* the current year (new Date().getFullYear())
    phase,      \* "idle", "running" or "exited": the make process
    goal,       \* the target make was asked for
    todo,       \* the targets whose recipes are still to run, in order
    running,    \* the target whose recipe line is in progress, or ""
    log,        \* the start and end of every recipe line of this run
    status,     \* make's exit status, once exited
    config,     \* the SiteConfig the generator evaluated in this run
    previous,   \* the SiteConfig the generator evaluated in the run before
    stack,      \* generator: sidebar entries still to visit
    nav,        \* generator: navigation entries emitted so far
    scanned,    \* generator: links of the Controllers document scanned so far
    dead,       \* generator: links found to resolve to no document
    site        \* the site emitted by the generator

vars == << decl, formatted, cwd, clock, phase, goal, todo, running, log, status,
           config, previous, stack, nav, scanned, dead, site >>

env == << decl, formatted, cwd, clock >>

gen == << config, stack, nav, scanned, dead, site >>

\* A configuration evaluated anew at every read.
ReadConfigFresh ==
    IF config.value.t = "undefined" THEN config.value
    ELSE SiteConfig(config.decl, config.dir, clock)

\* The SiteConfig value the generator reads.
ReadConfig == config.value

Loaded == ReadConfig.t # "undefined"

Init ==
    /\ decl \in Declarations
    /\ formatted = FALSE
    /\ cwd \in Dirs
    /\ clock = FirstYear
    /\ phase = "idle"
    /\ goal = ""
    /\ todo = << >>
    /\ running = ""
    /\ log = << >>
    /\ status = 0
    /\ config = NoBuild
    /\ previous = NoBuild
    /\ stack = << >>
    /\ nav = << >>
    /\ scanned = 0
    /\ dead = {}
    /\ site = NoSite

(* ----------------------------------------------------------------------- *)
(* The environment of a run                                                *)
(* ----------------------------------------------------------------------- *)

\* Time passes: a new calendar year begins.
Tick ==
    /\ clock < FirstYear + MaxTicks
    /\ clock' = clock + 1
    /\ UNCHANGED << decl, formatted, cwd, phase, goal, todo, running, log, status,
                    config, previous, stack, nav, scanned, dead, site >>

\* Another revision of rspress.config.ts is checked out between runs.
Checkout(d) ==
    /\ phase # "running"
    /\ d # decl
    /\ decl' = d
    /\ formatted' = FALSE
    /\ UNCHANGED << cwd, clock, phase, goal, todo, running, log, status,
                    config, previous, stack, nav, scanned, dead, site >>

\* The working tree is used from another directory between runs.
Relocate(dir) ==
    /\ phase # "running"
    /\ dir # cwd
    /\ cwd' = dir
    /\ UNCHANGED << decl, formatted, clock, phase, goal, todo, running, log, status,
                    config, previous, stack, nav, scanned, dead, site >>

(* ----------------------------------------------------------------------- *)
(* make <target>                                                           *)
(* ----------------------------------------------------------------------- *)

\* make is started for target t: it plans the recipes to run.
Invoke(t) ==
    /\ phase # "running"
    /\ phase' = "running"
    /\ goal' = t
    /\ todo' = Plan(t)
    /\ running' = ""
    /\ log' = << >>
    /\ status' = 0
    /\ previous' = IF Loaded THEN config ELSE previous
    /\ config' = NoBuild
    /\ stack' = << >>
    /\ nav' = << >>
    /\ scanned' = 0
    /\ dead' = {}
    /\ site' = NoSite
    /\ UNCHANGED env

\* make starts the recipe line of the next target.
Start ==
    /\ phase = "running"
    /\ running = ""
    /\ Len(todo) > 0
    /\ running' = Head(todo)
    /\ log' = Append(log, [ev |-> "start", target |-> Head(todo),
                           cmd |-> Recipe(Head(todo)), code |-> 0])
    /\ UNCHANGED << phase, goal, todo, status, env, gen, previous >>

\* The recipe line in progress ends with `code`: make goes on to the next
\* target, exits with success after the last one, or stops at the failure.
Ended(code) ==
    /\ log' = Append(log, [ev |-> "end", target |-> running,
                           cmd |-> Recipe(running), code |-> code])
    /\ running' = ""
    /\ goal' = goal
    /\ IF code = 0 \/ IgnoresErrors(running)
       THEN /\ todo' = Tail(todo)
            /\ phase' = IF Len(todo) = 1 THEN "exited" ELSE phase
            /\ status' = 0
       ELSE /\ todo' = todo
            /\ phase' = "exited"
            /\ status' = MakeStatus(code)

\* The working tree after a tool other than the generator ended with `code`:
\* the formatter rewrites the layout of the sources, a pull may merge another
\* revision of the configuration.
ToolEffect(code, d) ==
    /\ decl' = IF running = "pull" /\ code = 0 THEN d ELSE decl
    /\ formatted' = IF running = "fmt" /\ code = 0 THEN TRUE
                    ELSE IF decl' # decl THEN FALSE ELSE formatted

EndTool(code, d) ==
    /\ phase = "running"
    /\ running # ""
    /\ ~IsGenerator(running)
    /\ Ended(code)
    /\ ToolEffect(code, d)
    /\ UNCHANGED << cwd, clock, gen, previous >>

(* ----------------------------------------------------------------------- *)
(* The site generator (yarn run build)                                     *)
(* ----------------------------------------------------------------------- *)
RECURSIVE RootEntries(_)
\* The entries of every route-prefix key of a sidebar, at depth 0.
RootEntries(pairs) ==
    IF Len(pairs) = 0 THEN << >>
    ELSE [i \in 1..Len(Head(pairs)[2].v) |->
             [key |-> Head(pairs)[1], entry |-> Head(pairs)[2].v[i], depth |-> 0]]
         \o RootEntries(Tail(pairs))

\* The items of a sidebar entry taken last to first.
ChildrenReversed(n) ==
    IF HasKey(n.entry, "items")
    THEN [i \in 1..Len(Get(n.entry, "items").v) |->
             [key |-> n.key,
              entry |-> Get(n.entry, "items").v[Len(Get(n.entry, "items").v) + 1 - i],
              depth |-> n.depth + 1]]
    ELSE << >>

\* The items of a sidebar entry, one level below it.
Children(n) ==
    IF HasKey(n.entry, "items")
    THEN [i \in 1..Len(Get(n.entry, "items").v) |->
             [key |-> n.key, entry |-> Get(n.entry, "items").v[i], depth |-> n.depth + 1]]
    ELSE << >>

\* The navigation entry emitted for a sidebar entry.
NavEntry(n) ==
    [text |-> Get(n.entry, "text").v,
     link |-> IF HasKey(n.entry, "link") THEN Get(n.entry, "link").v ELSE "",
     depth |-> n.depth]

\* The generator evaluates rspress.config.ts, once.
GenLoad ==
    /\ phase = "running"
    /\ running # ""
    /\ IsGenerator(running)
    /\ ~Loaded
    /\ config' = [decl |-> decl, dir |-> cwd, year |-> clock,
                  value |-> SiteConfig(decl, cwd, clock)]
    /\ stack' = RootEntries(SidebarOf(config'.value).v)
    /\ UNCHANGED << phase, goal, todo, running, log, status, env,
                    previous, nav, scanned, dead, site >>

\* The generator visits the next sidebar entry: it emits its navigation
\* entry, resolves its link and goes on with its items.
GenVisit ==
    /\ phase = "running"
    /\ Loaded
    /\ Len(stack) > 0
    /\ LET n == Head(stack)
           e == NavEntry(n)
       IN /\ nav' = Append(nav, e)
          /\ dead' = IF e.link # "" /\ ~Resolves(e.link) THEN dead \cup {e.link} ELSE dead
          /\ stack' = Children(n) \o Tail(stack)
    /\ UNCHANGED << phase, goal, todo, running, log, status, env,
                    config, previous, scanned, site >>

\* The generator scans the next link of the Controllers document.
GenScan ==
    /\ phase = "running"
    /\ Loaded
    /\ Len(stack) = 0
    /\ scanned < Len(ControllersDoc.hrefs)
    /\ scanned' = scanned + 1
    /\ LET h == ControllersDoc.hrefs[scanned + 1]
       IN dead' = IF IsInternal(h) /\ ~Resolves(h.href) THEN dead \cup {h.href} ELSE dead
    /\ UNCHANGED << phase, goal, todo, running, log, status, env,
                    config, previous, stack, nav, site >>

\* The generator ends: with checkDeadLinks it fails on a dead link; on
\* success it has emitted the site, whose data is the serialized config.
GenEnd(code) ==
    /\ phase = "running"
    /\ Loaded
    /\ Len(stack) = 0
    /\ scanned = Len(ControllersDoc.hrefs)
    /\ (CheckDeadLinks(ReadConfig) /\ dead # {}) => code # 0
    /\ site' = IF code = 0 THEN [data |-> Reload(ReadConfig), nav |-> nav] ELSE NoSite
    /\ Ended(code)
    /\ UNCHANGED << env, config, previous, stack, nav, scanned, dead >>

Next ==
    \/ Tick
    \/ \E d \in Declarations : Checkout(d)
    \/ \E dir \in Dirs : Relocate(dir)
    \/ \E t \in Targets : Invoke(t)
    \/ Start
    \/ \E code \in ToolExitCodes, d \in Declarations : EndTool(code, d)
    \/ GenLoad
    \/ GenVisit
    \/ GenScan
    \/ \E code \in ToolExitCodes : GenEnd(code)

Spec == Init /\ [][Next]_vars

(* ----------------------------------------------------------------------- *)
(* Properties                                                              *)
(* ----------------------------------------------------------------------- *)

\* The recipe lines that ended in this run, in order.
EndEvents == SelectSeq(log, LAMBDA e : e.ev = "end")

NoDuplicateLinks == Loaded => NoDuplicates(SidebarLinks(ReadConfig))

\* The third declaration is evaluated: its sidebar holds links in two groups.
ThirdSidebarLoaded ==
    /\ Loaded
    /\ config.decl = 3
    /\ Len(SidebarLinks(ReadConfig)) > Len(ListLinks(<< Overview3 >>))

\* C3: every key of themeConfig.sidebar starts with '/'.
SidebarKeysAreRoutePrefixes ==
    Loaded => \A i \in 1..Len(Keys(SidebarOf(ReadConfig))) :
                  StartsWith(Keys(SidebarOf(ReadConfig))[i], "/")

\* The second declaration is evaluated and its sidebar has a key.
SecondSidebarLoaded ==
    /\ Loaded
    /\ config.decl = 2
    /\ Len(Keys(SidebarOf(ReadConfig))) > 0

\* C4: in a run of build, the site-build step starts only after the format
\* step has started and ended with success.
FormatBeforeBuild ==
    goal = "build" =>
        \A i \in 1..Len(log) :
            (log[i].ev = "start" /\ log[i].cmd = "yarn run build") =>
                \E k, j \in 1..Len(log) :
                    /\ k < j /\ j < i
                    /\ log[k].ev = "start" /\ log[k].cmd = "yarn run fmt"
                    /\ log[j].ev = "end" /\ log[j].cmd = "yarn run fmt"
                    /\ log[j].code = 0

\* A run of build has started its site-build step.
SiteBuildStarted ==
    /\ goal = "build"
    /\ \E i \in 1..Len(log) : log[i].ev = "start" /\ log[i].cmd = "yarn run build"

\* C5, as stated: the exit status of a command is the exit code of the last
\* wrapped tool it ran.
ExitIsToolExit ==
    (phase = "exited" /\ Len(EndEvents) > 0) =>
        status = EndEvents[Len(EndEvents)].code

\* C5, amended: a command exits with 0 exactly when every recipe line of its
\* plan ran and ended with 0; otherwise it exits with make's error status
\* right after the first recipe line that failed, having run no other step.
ExitFollowsTools ==
    phase = "exited" =>
        /\ status \in {0, MakeErrorStatus}
        /\ status = 0 <=> \A i \in 1..Len(EndEvents) : EndEvents[i].code = 0
        /\ status = 0 =>
              [i \in 1..Len(EndEvents) |-> EndEvents[i].target] = Plan(goal)
        /\ status # 0 =>
              /\ log[Len(log)].ev = "end"
              /\ log[Len(log)].code # 0
              /\ \A i \in 1..(Len(EndEvents) - 1) : EndEvents[i].code = 0
              /\ Len(EndEvents) <= Len(Plan(goal))
              /\ [i \in 1..Len(EndEvents) |-> EndEvents[i].target]
                    = SubSeq(Plan(goal), 1, Len(EndEvents))

\* A command stopped at the failure of its first step and ran no second one.
StoppedAtFirstFailure ==
    /\ phase = "exited"
    /\ Len(Plan(goal)) > 1
    /\ Len(EndEvents) = 1
    /\ EndEvents[1].code = 1
    /\ status = MakeErrorStatus

\* C6: a build whose sidebar or documents hold a link that resolves to no
\* document ends in failure and emits no site.
MissingDocumentReported ==
    (phase = "exited" /\ goal = "build" /\ Loaded /\ DeadLinks(ReadConfig) # {}) =>
        (status # 0 /\ site.data.t = "undefined")

\* C7: the evaluated SiteConfig, serialized and reloaded, is the same value,
\* and so is the site data the generator emitted from it.
RoundTrip ==
    Loaded =>
        /\ Reload(ReadConfig) = ReadConfig
        /\ site.data.t # "undefined" => site.data = ReadConfig

\* The generator emitted the site of the third declaration, footer included,
\* evaluated after a new year: its data went through serialization.
SiteDataEmitted ==
    /\ Loaded
    /\ config.decl = 3
    /\ config.year > FirstYear
    /\ HasKey(Get(ReadConfig, "themeConfig"), "footer")
    /\ site.data.t = "object"

\* C8: while a build runs, no step changes the declaration in the working
\* tree, and once the generator has evaluated the SiteConfig no step changes
\* the value it reads.
ConfigImmutable ==
    [][(phase = "running" /\ goal = "build") =>
          /\ decl' = decl
          /\ cwd' = cwd
          /\ Loaded => ReadConfig' = ReadConfig]_vars

\* A build has run its format step and is in its generator, which evaluated
\* the SiteConfig in an earlier year than the current one.
BuildSpansNewYear ==
    /\ phase = "running"
    /\ goal = "build"
    /\ formatted
    /\ Loaded
    /\ config.year < clock
    /\ Len(nav) > 0

HasFooter(c) == HasKey(Get(c, "themeConfig"), "footer")

\* The object o with the value of its member k replaced.
With(o, k, val) ==
    JObj([i \in 1..Len(o.v) |-> IF o.v[i][1] = k THEN << k, val >> ELSE o.v[i]])

\* A SiteConfig with root and themeConfig.footer.message blanked.
Blanked(c) ==
    With(With(c, "root", JStr("")),
         "themeConfig",
         IF HasFooter(c)
         THEN With(Get(c, "themeConfig"), "footer",
                   With(Get(Get(c, "themeConfig"), "footer"), "message", JStr("")))
         ELSE Get(c, "themeConfig"))

\* C9, as stated: two builds of the same declaration evaluate the same
\* SiteConfig value.
SameDeclarationSameConfig ==
    (Loaded /\ previous.decl = config.decl) => previous.value = config.value

\* C9, amended: two builds of the same declaration evaluate the same value
\* exactly when they run from the same directory and, where the declaration
\* has a footer, in the same year; they agree on every field other than root
\* and themeConfig.footer.message, which are those of the build's directory
\* and year.
BuildsAgreeUpToEnvironment ==
    (Loaded /\ previous.decl = config.decl) =>
        /\ (previous.value = config.value) <=>
              /\ previous.dir = config.dir
              /\ HasFooter(config.value) => previous.year = config.year
        /\ Blanked(previous.value) = Blanked(config.value)
        /\ Get(config.value, "root") = JStr(PathJoin(config.dir, "docs"))
        /\ HasFooter(config.value) =>
              Get(Get(Get(config.value, "themeConfig"), "footer"), "message")
                  = FooterMessage(config.year)

\* Two builds of one declaration, in different years and directories.
TwoBuildsApart ==
    /\ Loaded
    /\ previous.decl = config.decl
    /\ previous.year # config.year
    /\ previous.dir # config.dir

\* C10: every site-internal link the generator scanned in the Controllers
\* document is the link of some SidebarEntry.
DocumentLinksInSidebar ==
    Loaded =>
        \A i \in 1..scanned :
            IsInternal(ControllersDoc.hrefs[i]) =>
                ControllersDoc.hrefs[i].href \in Range(SidebarLinks(ReadConfig))

\* The recipe lines started in this run, in order.
StartEvents == SelectSeq(log, LAMBDA e : e.ev = "start")

\* C11, as stated: a run of build performs exactly one external invocation.
BuildIsOneInvocation ==
    (phase = "exited" /\ goal = "build") => Len(StartEvents) = 1

\* C11, amended: the external invocations of a run follow one another: a
\* recipe line starts only when the one before has ended, at most one is
\* in progress, and every one has ended when the command returns. A run of
\* build performs one invocation when the format step fails and two, the
\* format step then the site build, when it succeeds.
InvocationsInSequence ==
    /\ \A i \in 1..Len(log) :
          log[i].ev = (IF i % 2 = 1 THEN "start" ELSE "end")
    /\ \A i \in 1..Len(log) :
          log[i].ev = "end" => log[i].target = log[i - 1].target
    /\ Len(StartEvents) - Len(EndEvents) = (IF running = "" THEN 0 ELSE 1)
    /\ phase = "exited" => (running = "" /\ Len(StartEvents) = Len(EndEvents))
    /\ (phase = "exited" /\ goal = "build") =>
          /\ Len(StartEvents) = (IF EndEvents[1].code = 0 THEN 2 ELSE 1)
          /\ [i \in 1..Len(StartEvents) |-> StartEvents[i].cmd]
                = SubSeq(<< "yarn run fmt", "yarn run build" >>, 1, Len(StartEvents))

\* A run of build returned with success after its two invocations.
BuildRanTwoInvocations ==
    /\ phase = "exited"
    /\ goal = "build"
    /\ status = 0
    /\ Len(EndEvents) = 2

RECURSIVE EntryNodes(_), ListNodes(_)
\* A SidebarEntry and the entries below it, depth first.
EntryNodes(e) ==
    << e >> \o (IF HasKey(e, "items") /\ Get(e, "items").t = "array"
                THEN ListNodes(Get(e, "items").v) ELSE << >>)
ListNodes(es) ==
    IF Len(es) = 0 THEN << >> ELSE EntryNodes(Head(es)) \o ListNodes(Tail(es))

RECURSIVE GroupNodes(_)
GroupNodes(pairs) ==
    IF Len(pairs) = 0 THEN << >>
    ELSE ListNodes(Head(pairs)[2].v) \o GroupNodes(Tail(pairs))

\* Every SidebarEntry of the sidebar tree, at any depth.
SidebarNodes(c) == GroupNodes(SidebarOf(c).v)

IsLeafEntry(e) ==
    /\ HasKey(e, "link") /\ Get(e, "link").t = "string"
    /\ ~HasKey(e, "items")
    /\ ~HasKey(e, "collapsible")

IsGroupEntry(e) ==
    /\ HasKey(e, "items") /\ Get(e, "items").t = "array"
    /\ Len(Get(e, "items").v) > 0
    /\ ~HasKey(e, "link")
    /\ HasKey(e, "collapsible") => Get(e, "collapsible").t = "boolean"

\* C12: every sidebar node has a text and is either a leaf (a link, no
\* items, no collapsible) or a group (a non-empty items list, no link).
SidebarEntryShape ==
    Loaded =>
        \A i \in 1..Len(SidebarNodes(ReadConfig)) :
            LET e == SidebarNodes(ReadConfig)[i] IN
            /\ HasKey(e, "text") /\ Get(e, "text").t = "string"
            /\ Range(Keys(e)) \subseteq {"text", "link", "items", "collapsible"}
            /\ NoDuplicates(Keys(e))
            /\ IsLeafEntry(e) \/ IsGroupEntry(e)

\* A declaration is evaluated whose sidebar has a leaf, a group with
\* collapsible and, in the second declaration, a group without it.
LeafAndGroupsLoaded ==
    /\ Loaded
    /\ \E i \in 1..Len(SidebarNodes(ReadConfig)) :
          IsLeafEntry(SidebarNodes(ReadConfig)[i])
    /\ \E i \in 1..Len(SidebarNodes(ReadConfig)) :
          /\ IsGroupEntry(SidebarNodes(ReadConfig)[i])
          /\ (config.decl = 2) = ~HasKey(SidebarNodes(ReadConfig)[i], "collapsible")

RECURSIVE EntryOrder(_, _), ListOrder(_, _)
\* The declared order of a SidebarEntry and of its items: the entry, then
\* each of its items with what is below it, first to last.
EntryOrder(e, depth) ==
    << [text |-> Get(e, "text").v,
        link |-> IF HasKey(e, "link") THEN Get(e, "link").v ELSE "",
        depth |-> depth] >>
    \o (IF HasKey(e, "items") THEN ListOrder(Get(e, "items").v, depth + 1) ELSE << >>)
ListOrder(es, depth) ==
    IF Len(es) = 0 THEN << >>
    ELSE EntryOrder(Head(es), depth) \o ListOrder(Tail(es), depth)

RECURSIVE GroupOrder(_)
GroupOrder(pairs) ==
    IF Len(pairs) = 0 THEN << >>
    ELSE ListOrder(Head(pairs)[2].v, 0) \o GroupOrder(Tail(pairs))

\* The depth-first, left-to-right traversal of the declared sidebar.
DeclaredOrder(c) == GroupOrder(SidebarOf(c).v)

PullBeforePush ==
    goal = "push" =>
        \A i \in 1..Len(log) :
            (log[i].ev = "start" /\ log[i].cmd = "git push origin dev:dev") =>
                \E k, j \in 1..Len(log) :
                    /\ k < j /\ j < i
                    /\ log[k].ev = "start" /\ log[k].cmd = "git pull origin master:master"
                    /\ log[j].ev = "end" /\ log[j].cmd = "git pull origin master:master"
                    /\ log[j].code = 0

\* A run of push has started its push step.
PushStarted ==
    /\ goal = "push"
    /\ \E i \in 1..Len(log) :
          log[i].ev = "start" /\ log[i].cmd = "git push origin dev:dev"

\* The top-level entries of the sidebar with the text `name`.
GroupsNamed(c, name) ==
    {i \in 1..Len(SidebarNodes(c)) :
        /\ Get(SidebarNodes(c)[i], "text").v = name
        /\ HasKey(SidebarNodes(c)[i], "items")}

\* C15: every link listed under a sidebar key starts with that key, every
\* link of the OVERVIEW group with '/overview/' and every link of the
\* FUNDAMENTALS group with '/fundamentals/'.
LinksUnderPrefix ==
    Loaded =>
        /\ \A k \in 1..Len(SidebarOf(ReadConfig).v) :
              LET pair == SidebarOf(ReadConfig).v[k] IN
              \A l \in Range(ListLinks(pair[2].v)) : StartsWith(l, pair[1])
        /\ \A i \in GroupsNamed(ReadConfig, "OVERVIEW") :
              \A l \in Range(EntryLinks(SidebarNodes(ReadConfig)[i])) :
                  StartsWith(l, "/overview/")
        /\ \A i \in GroupsNamed(ReadConfig, "FUNDAMENTALS") :
              \A l \in Range(EntryLinks(SidebarNodes(ReadConfig)[i])) :
                  StartsWith(l, "/fundamentals/")

\* A declaration is evaluated whose sidebar has both groups, each with links.
BothGroupsLoaded ==
    /\ Loaded
    /\ \E i \in GroupsNamed(ReadConfig, "OVERVIEW") :
          Len(EntryLinks(SidebarNodes(ReadConfig)[i])) > 1
    /\ \E i \in GroupsNamed(ReadConfig, "FUNDAMENTALS") :
          Len(EntryLinks(SidebarNodes(ReadConfig)[i])) > 0

=============================================================================
